---- MODULE Spec2Model ----
(***************************************************************************)
(* Outbound mail notification subsystem of the IT service desk:            *)
(* apps/api/app/services/mail_service.py over the mail_logs table          *)
(* (apps/api/app/models/mail_log.py).                                      *)
(*                                                                         *)
(* Request threads call enqueue_mail; dispatch workers run _process_once   *)
(* in a loop.  Every database statement is one atomic step; an enqueue     *)
(* call and a dispatch cycle are sequences of such steps, so calls and     *)
(* cycles interleave as they do on the database.                           *)
(***************************************************************************)
EXTENDS Integers, Sequences, FiniteSets, TLC

\* ---------------------------------------------------------------- constants
MAIL_MAX_ATTEMPTS == 3
MAIL_POLL_SECONDS == 10
MAIL_COOLDOWN_SECONDS == 60
\* .limit(20) of _load_pending
LOAD_LIMIT == 20

\* ------------------------------------------------------------------- bounds
\* instants of TimeLine the clock may visit: where payloads vary, and where
\* retries are followed to the end
MaxInstants == 2
MaxRetryInstants == 4
\* dispatch cycles that end without their commit (interrupted, commit raised)
MaxAborts == 1
\* rows the table may hold (reached only when the unique index is taken away)
MaxRows == 3
\* failure counts at which the backoff schedule is read
BackoffProbe == 6
\* instants of TimeLine the clock may visit while the user sync runs
MaxSyncInstants == 2
\* instants of TimeLine the clock may visit where the cooldown window of a
\* retried row is followed
MaxCooldownInstants == 3
\* instants of LoopTimeLine the clock may visit while _sync_loop runs
MaxLoopInstants == 5
\* instants of LoopTimeLine the clock may visit while both threads run
MaxThreadInstants == 3

\* a nullable column: NULL or Some(v)
NULL == <<>>
Some(v) == <<v>>
Val(x) == x[1]

\* ------------------------------------------------------------------ inputs
EventKeys == {"k1", "k2"}
EventTypes == {"status_changed", "comment_admin"}
TicketIds == {Some(1)}
\* raw recipient addresses as the callers pass them
RawEmails == {"", "not-an-address", "u@ex.com", "u@EX.COM"}
\* a status-change notification for ticket 1 to u@ex.com, under either key and
\* with the address in either spelling; the event of k2 may instead carry an
\* empty or malformed address, or another event_type
BasePayload == [event_type |-> "status_changed", ticket_id |-> Some(1),
                recipient_email |-> "u@ex.com"]
Payloads ==
    {p \in [event_key : EventKeys, event_type : EventTypes,
            ticket_id : TicketIds, recipient_email : RawEmails] :
        LET differs == {f \in DOMAIN BasePayload : p[f] # BasePayload[f]}
        IN \/ differs = {}
           \/ differs = {"recipient_email"} /\ p.recipient_email = "u@EX.COM"
           \/ p.event_key = "k2" /\ Cardinality(differs) = 1}

\* the notification alone, under either key
BasePayloads ==
    {p \in Payloads : \A f \in DOMAIN BasePayload : p[f] = BasePayload[f]}

EnqueueThreads == {"e1", "e2"}
Workers == {"w1", "w2"}

\* the instants the clock visits: the ends of the cooldown window and of the
\* backoff delays of a row first attempted at 0, and one instant past each
TimeLine == <<0, 60, 360, 1260, 1320, 2160>>
Instants(n) == {TimeLine[m] : m \in 1..(IF n < Len(TimeLine)
                                       THEN n ELSE Len(TimeLine))}

\* user_sync.py
SYNC_KEY_PASSWORD == "users_password_sync"
SYNC_KEY_PROFILE == "users_profile_sync"
SyncKeys == {SYNC_KEY_PASSWORD, SYNC_KEY_PROFILE}
\* datetime(1970, 1, 1): before every instant of the clock and before the
\* stamps the HR database holds when the process starts
EPOCH == 0 - 2
HR_START == 0 - 1
\* employee numbers with the configured prefix
EmpNos == {"30001", "30002"}
Passwords == {"pw1", "pw2"}
ProfileFields == {"kor_name", "eng_name", "title", "department", "email"}
\* the profile data of an employee in its v-th edition
Profile(emp_no, v) == [f \in ProfileFields |-> <<f, emp_no, v>>]

\* time.time() when the process starts: 23:59:00 Asia/Seoul (14:59:00 UTC)
\* of day 20000 after 1970-01-01
PROCESS_START == 20000 * 86400 + 14 * 3600 + 59 * 60
\* the instants the clock visits while _sync_loop runs, in seconds after the
\* start: 23:59, then 00:00, 00:01 and 01:00 of the next date, then 00:00
\* and 00:01 of the date after it
LoopTimeLine == <<0, 60, 120, 3660, 86460, 86520>>
LoopInstants(n) == {LoopTimeLine[m] : m \in 1..(IF n < Len(LoopTimeLine)
                                               THEN n ELSE Len(LoopTimeLine))}
\* the values of cfg: password_interval_seconds is max(60, setting)
SyncConfigs == [password_interval_seconds : {60, 3600},
                full_at_hour_kst : {0}]
\* check_interval of _sync_loop
CHECK_INTERVAL == 60

ERR_INVALID == "invalid address format, not sent"
ERR_COOLDOWN == "duplicate within cooldown, not sent"
ERR_SMTP == "smtp error"

VARIABLES
    smtp_host,      \* settings.smtp_host
    smtp_from,      \* settings.smtp_from
    request_threads,\* the request threads that call enqueue_mail
    mail_workers,   \* the processes that run the mail worker loop
    inputs,         \* the payloads the callers pass in this run
    horizon,        \* the instants the clock visits in this run
    clock,          \* wall clock, seconds
    mail_logs,      \* the committed rows of table mail_logs, id = index
    epc,            \* per enqueue thread: position in enqueue_mail
    enow,           \* per enqueue thread: local `now`
    etx,            \* per enqueue thread: when its transaction began, or NULL
    erow,           \* per enqueue thread: the row added to the session
    eresult,        \* per enqueue thread: how the last call ended
    eseen,          \* per enqueue thread: the key of the call had a row when
                    \* the call began
    ecool,          \* per enqueue thread: when the call began the table held
                    \* a sent row of its tuple, under another key, created
                    \* in the 60 seconds before
    ticket_pc,      \* position of the create_ticket request in its
                    \* notifications, "none" when no ticket is being created
    wpc,            \* per worker: position in _process_once
    wnow,           \* per worker: local `now`
    wsession,       \* per worker: id -> the row loaded by _load_pending (and
                    \* row-locked), as modified in the session so far
    wtodo,          \* per worker: ids of `logs` the for loop has yet to visit
    accepted,       \* event_key -> number of mails the relay accepted
    sent_by,        \* event_key -> the workers whose send the relay accepted
    aborts,         \* cycles that ended without commit
    sync_enabled,   \* settings.sync_enabled
    sync_source_database_url, \* settings.sync_source_database_url
    sync_force_full,\* settings.sync_force_full
    _force_full_done, \* the module global of user_sync.py
    source,         \* the HR database: emp_no -> its rows as the queries join them
    users,          \* the committed rows of table users, by emp_no
    sync_state,     \* table sync_state: key -> last_synced_at
    sync_pc,        \* position of the sync thread in a sync_*_once call
    sync_task,      \* the key of the task that runs
    fetched,        \* the result set of the source query
    source_rows,    \* fetched source rows the for loop has yet to visit
    max_updated,    \* local max_updated
    affected,       \* local affected
    tx_users,       \* table users as the open session sees it
    sync_result,    \* how the last sync_*_once call ended
    cfg,            \* _sync_loop: the SyncConfig it loaded
    loop_pc,        \* _sync_loop: "off" (no thread), "sleep", or the call
                    \* the tick is in: "password", "profile"
    loop_wake,      \* _sync_loop: when time.sleep(check_interval) ends
    now_ts,         \* _sync_loop: now_ts (and now_kst) of the tick
    last_password_run,     \* _sync_loop: local, time.time() seconds
    last_profile_date_kst  \* _sync_loop: local, NULL or a datetime

vars == <<smtp_host, smtp_from, request_threads, mail_workers, inputs,
          horizon, clock, mail_logs, epc, enow, etx,
          erow, eresult, eseen, ecool, ticket_pc, wpc, wnow, wsession, wtodo, accepted, sent_by,
          aborts, sync_enabled, sync_source_database_url, sync_force_full,
          _force_full_done, source, users, sync_state, sync_pc, sync_task, fetched, source_rows, max_updated, affected, tx_users,
          sync_result, cfg, loop_pc, loop_wake, now_ts, last_password_run,
          last_profile_date_kst>>

config_vars == <<smtp_host, smtp_from, request_threads, mail_workers,
                 inputs, horizon>>
enqueue_vars == <<epc, enow, etx, erow, eresult, eseen, ecool, ticket_pc>>
worker_vars == <<wpc, wnow, wsession, wtodo>>
relay_vars == <<accepted, sent_by, aborts>>
sync_settings == <<sync_enabled, sync_source_database_url, sync_force_full>>
sync_locals == <<sync_pc, sync_task, source_rows, fetched, max_updated, affected,
                 tx_users>>
loop_vars == <<cfg, loop_pc, loop_wake, now_ts, last_password_run,
               last_profile_date_kst>>
sync_vars == <<sync_settings, _force_full_done, source, users,
               sync_state, sync_locals, sync_result, loop_vars>>
mail_vars == <<config_vars, mail_logs, enqueue_vars, worker_vars, relay_vars>>

NoPayload == [event_key |-> "", event_type |-> "", ticket_id |-> NULL,
              recipient_email |-> ""]

Ids == 1..Len(mail_logs)
\* the ids the table can hold
RowIds == 1..MaxRows

\* ------------------------------------------------------------ pure helpers
\* faulty variant: a relay host alone counts as a configured transport
SmtpReadyHostOnly == smtp_host # ""

\* bool(settings.smtp_host and settings.smtp_from)
_is_smtp_ready == smtp_host # "" /\ smtp_from # ""

\* what validate_email(addr, check_deliverability=False).email returns for the
\* addresses of RawEmails: the domain is lower-cased, the local part kept
NormalizedAddress(addr) == IF addr = "u@EX.COM" THEN "u@ex.com" ELSE addr
HasAddressSyntax(addr) == addr \in {"u@ex.com", "u@EX.COM"}

\* the normalized address, or NULL for an empty or malformed one
_validate_email(addr) ==
    IF addr = "" THEN NULL
    ELSE IF HasAddressSyntax(addr) THEN Some(NormalizedAddress(addr))
    ELSE NULL

\* faulty variant: the window is measured from the delivery of the sent row
CooldownFromDelivery(rows, payload, now) ==
    LET cutoff == now - MAIL_COOLDOWN_SECONDS
    IN \E i \in 1..Len(rows) :
          /\ rows[i].recipient_email = payload.recipient_email
          /\ rows[i].event_type = payload.event_type
          /\ rows[i].ticket_id = payload.ticket_id
          /\ rows[i].status = "sent"
          /\ rows[i].last_attempt_at # NULL
          /\ Val(rows[i].last_attempt_at) >= cutoff

\* faulty variant: the cooldown query without its event_type condition
CooldownAnyType(rows, payload, now) ==
    LET cutoff == now - MAIL_COOLDOWN_SECONDS
    IN \E i \in 1..Len(rows) :
          /\ rows[i].recipient_email = payload.recipient_email
          /\ rows[i].ticket_id = payload.ticket_id
          /\ rows[i].status = "sent"
          /\ rows[i].created_at >= cutoff

\* a sent row for the same (recipient_email, event_type, ticket_id) created at
\* or after now - MAIL_COOLDOWN_SECONDS
_cooldown_hit(rows, payload, now) ==
    LET cutoff == now - MAIL_COOLDOWN_SECONDS
    IN \E i \in 1..Len(rows) :
          /\ rows[i].recipient_email = payload.recipient_email
          /\ rows[i].event_type = payload.event_type
          /\ rows[i].ticket_id = payload.ticket_id
          /\ rows[i].status = "sent"
          /\ rows[i].created_at >= cutoff

\* faulty variant: steps indexed by attempts, not attempts - 1
BackoffOffByOne(attempts) ==
    LET steps == <<60, 300, 900>>
        b == Len(steps) - 1
        m == IF attempts < b THEN attempts ELSE b
    IN steps[m + 1]

\* steps[min(attempts - 1, len(steps) - 1)]
_next_backoff(attempts) ==
    LET steps == <<60, 300, 900>>
        a == attempts - 1
        b == Len(steps) - 1
        m == IF a < b THEN a ELSE b
    IN steps[(IF m < 0 THEN m + Len(steps) ELSE m) + 1]

\* MailLog(...) as enqueue_mail builds it; created_at and updated_at are the
\* server defaults, the time the inserting transaction began
MailLog(payload, status, last_attempt_at, next_attempt_at, error_message, tx) ==
    [event_key |-> payload.event_key,
     event_type |-> payload.event_type,
     ticket_id |-> payload.ticket_id,
     recipient_email |-> payload.recipient_email,
     status |-> status,
     attempts |-> 0,
     last_attempt_at |-> last_attempt_at,
     next_attempt_at |-> next_attempt_at,
     error_message |-> error_message,
     created_at |-> tx,
     updated_at |-> tx]

NoRow == MailLog(NoPayload, "", NULL, NULL, NULL, 0)

\* faulty variant: event_key without unique=True
NoUniqueIndex(rows, key) == FALSE

\* the unique index on mail_logs.event_key refuses a second row for a key
UniqueViolation(rows, key) == \E i \in 1..Len(rows) : rows[i].event_key = key

\* the table holds a sent row under another event_key for the (recipient_email,
\* event_type, ticket_id) of the payload as the caller passed it, created in
\* the 60 seconds before now
SentWithinCooldown(row, now) ==
    \E i \in Ids :
       /\ mail_logs[i].event_key # row.event_key
       /\ mail_logs[i].recipient_email = row.recipient_email
       /\ mail_logs[i].event_type = row.event_type
       /\ mail_logs[i].ticket_id = row.ticket_id
       /\ mail_logs[i].status = "sent"
       /\ now - mail_logs[i].created_at <= 60

\* ------------------------------------------------------------ enqueue_mail
\* the call ends; its session and locals are gone
EnqueueReturn(e, result) ==
    /\ epc' = [epc EXCEPT ![e] = "idle"]
    /\ enow' = [enow EXCEPT ![e] = 0]
    /\ etx' = [etx EXCEPT ![e] = NULL]
    /\ erow' = [erow EXCEPT ![e] = NoRow]
    /\ eresult' = [eresult EXCEPT ![e] = result]

\* lines 81-132: the transport check, the address check and the cooldown query
EnqueueCall(e, payload) ==
    /\ e \in request_threads
    /\ payload \in inputs
    /\ epc[e] = "idle"
    /\ eseen' = [eseen EXCEPT ![e] =
                    \E i \in Ids : mail_logs[i].event_key = payload.event_key]
    /\ ecool' = [ecool EXCEPT ![e] = SentWithinCooldown(payload, clock)]
    /\ IF ~_is_smtp_ready
       THEN EnqueueReturn(e, "no_smtp")
       ELSE LET normalized == _validate_email(payload.recipient_email)
                now == clock
            IN /\ enow' = [enow EXCEPT ![e] = now]
               /\ eresult' = [eresult EXCEPT ![e] = "none"]
               /\ IF normalized = NULL
                  THEN /\ erow' = [erow EXCEPT ![e] =
                              MailLog(payload, "skipped", Some(now), NULL,
                                      Some(ERR_INVALID), 0)]
                       /\ etx' = [etx EXCEPT ![e] = NULL]
                       /\ epc' = [epc EXCEPT ![e] = "commit"]
                  ELSE LET p == [payload EXCEPT !.recipient_email = Val(normalized)]
                       IN /\ etx' = [etx EXCEPT ![e] = Some(clock)]
                          /\ IF _cooldown_hit(mail_logs, p, now)
                             THEN /\ erow' = [erow EXCEPT ![e] =
                                         MailLog(p, "skipped", Some(now), NULL,
                                                 Some(ERR_COOLDOWN), 0)]
                                  /\ epc' = [epc EXCEPT ![e] = "commit"]
                             ELSE /\ erow' = [erow EXCEPT ![e] =
                                         MailLog(p, "pending", NULL, Some(now),
                                                 NULL, 0)]
                                  /\ epc' = [epc EXCEPT ![e] = "exists"]
    /\ UNCHANGED <<config_vars, sync_vars,
                   clock, mail_logs, worker_vars, relay_vars>>

\* enqueue_mail called by any of its callers, outside create_ticket
enqueue_mail(e, payload) ==
    /\ ticket_pc = "none"
    /\ EnqueueCall(e, payload)
    /\ UNCHANGED ticket_pc

\* lines 134-137: the idempotency query
enqueue_exists(e) ==
    /\ epc[e] = "exists"
    /\ LET exists == \E i \in Ids : mail_logs[i].event_key = erow[e].event_key
       IN IF exists
          THEN EnqueueReturn(e, "duplicate")
          ELSE /\ epc' = [epc EXCEPT ![e] = "commit"]
               /\ UNCHANGED <<enow, etx, erow, eresult>>
    /\ UNCHANGED <<config_vars, sync_vars,
                   clock, mail_logs, eseen, ecool, ticket_pc, worker_vars,
                   relay_vars>>

\* session.commit() of lines 107, 130 and 154: the INSERT is flushed and
\* committed, or the unique index raises IntegrityError and nothing is stored
enqueue_commit(e) ==
    /\ epc[e] = "commit"
    /\ LET tx == IF etx[e] = NULL THEN clock ELSE Val(etx[e])
           row == [erow[e] EXCEPT !.created_at = tx, !.updated_at = tx]
       IN IF UniqueViolation(mail_logs, row.event_key)
          THEN /\ EnqueueReturn(e, "IntegrityError")
               /\ UNCHANGED mail_logs
          ELSE /\ Len(mail_logs) < MaxRows
               /\ mail_logs' = Append(mail_logs, row)
               /\ EnqueueReturn(e, "none")
    /\ UNCHANGED <<config_vars, sync_vars,
                   clock, eseen, ecool, ticket_pc, worker_vars, relay_vars>>

\* ----------------------------------------------------------- create_ticket
\* the ticket the request stores, its requester, and the admins
\* get_category_admins may return for its category: another employee, under
\* either spelling of the address the requester has too, or the requester
NewTicket == [id |-> 1]
Requester == [emp_no |-> "30001", email |-> "u@ex.com"]
CategoryAdmins ==
    {[emp_no |-> "30002", email |-> "u@ex.com"],
     [emp_no |-> "30002", email |-> "u@EX.COM"],
     [emp_no |-> "30001", email |-> "u@ex.com"]}

\* the MailPayload notify_requester_ticket_created hands to enqueue_mail
RequesterPayload(ticket, requester) ==
    [event_key |-> "ticket_created:requester:" \o ToString(ticket.id)
                      \o ":" \o requester.emp_no,
     event_type |-> "ticket_created",
     ticket_id |-> Some(ticket.id),
     recipient_email |-> requester.email]

\* the MailPayload notify_admins_ticket_created hands to enqueue_mail
AdminPayload(ticket, admin) ==
    [event_key |-> "ticket_created:admin:" \o ToString(ticket.id)
                      \o ":" \o admin.emp_no,
     event_type |-> "ticket_created_admin",
     ticket_id |-> Some(ticket.id),
     recipient_email |-> admin.email]

\* tickets.py line 280
notify_requester_ticket_created(e) ==
    /\ ticket_pc = "requester"
    /\ \E payload \in inputs :
          /\ payload.event_type = "ticket_created"
          /\ EnqueueCall(e, payload)
    /\ ticket_pc' = "admins"

\* tickets.py lines 281-286: the one admin of the category is notified,
\* unless the first notification raised and the except clause took over
notify_admins_ticket_created(e) ==
    /\ ticket_pc = "admins"
    /\ e \in request_threads
    /\ epc[e] = "idle"
    /\ IF eresult[e] = "IntegrityError"
       THEN UNCHANGED <<config_vars, sync_vars, clock, mail_logs, epc, enow,
                        etx, erow, eresult, eseen, ecool, worker_vars,
                        relay_vars>>
       ELSE \E payload \in inputs :
               /\ payload.event_type = "ticket_created_admin"
               /\ EnqueueCall(e, payload)
    /\ ticket_pc' = "return"

\* tickets.py line 288: the request returns
create_ticket_returns(e) ==
    /\ ticket_pc = "return"
    /\ e \in request_threads
    /\ epc[e] = "idle"
    /\ ticket_pc' = "done"
    /\ UNCHANGED <<config_vars, sync_vars, clock, mail_logs, epc, enow,
                   etx, erow, eresult, eseen, ecool, worker_vars,
                   relay_vars>>

\* ------------------------------------------------------------ mail_events
\* faulty variant: the key of a status-change mail leaves the status out
StatusChangedPayloadNoStatus(ticket, requester, new_status) ==
    [event_key |-> "status_changed:requester:" \o ToString(ticket.id)
                      \o ":" \o requester.emp_no,
     event_type |-> "status_changed",
     ticket_id |-> Some(ticket.id),
     recipient_email |-> requester.email]

\* the MailPayload of notify_requester_status_changed
StatusChangedPayload(ticket, requester, new_status) ==
    [event_key |-> "status_changed:requester:" \o ToString(ticket.id)
                      \o ":" \o requester.emp_no \o ":" \o new_status,
     event_type |-> "status_changed",
     ticket_id |-> Some(ticket.id),
     recipient_email |-> requester.email]

\* the MailPayload of notify_requester_commented for one admin of its list
CommentRequesterPayload(ticket, comment, admin) ==
    [event_key |-> "comment_requester:admin:" \o ToString(ticket.id)
                      \o ":" \o ToString(comment.id) \o ":" \o admin.emp_no,
     event_type |-> "comment_requester",
     ticket_id |-> Some(ticket.id),
     recipient_email |-> admin.email]

\* the MailPayload of notify_admin_commented
CommentAdminPayload(ticket, comment, requester) ==
    [event_key |-> "comment_admin:requester:" \o ToString(ticket.id)
                      \o ":" \o ToString(comment.id) \o ":"
                      \o requester.emp_no,
     event_type |-> "comment_admin",
     ticket_id |-> Some(ticket.id),
     recipient_email |-> requester.email]

\* tickets, users, comments and target statuses of the notifications; the
\* ids and employee numbers are prefixes of one another, the two users
\* share an address, and the statuses are those tickets.py sends mail for
NoticeTickets == {[id |-> 1], [id |-> 11]}
NoticeUsers == {[emp_no |-> "30001", email |-> "u@ex.com"],
                [emp_no |-> "130001", email |-> "u@ex.com"]}
NoticeComments == {[id |-> 1], [id |-> 11]}
NoticeStatuses == {"in_progress", "resolved", "closed"}

\* a call of a notify_* function: the payload it builds, with the employee
\* number of its recipient and the status or comment id it was called with
Notice(payload, user, detail) ==
    [event_key |-> payload.event_key,
     event_type |-> payload.event_type,
     ticket_id |-> payload.ticket_id,
     recipient_email |-> payload.recipient_email,
     emp_no |-> user.emp_no,
     detail |-> detail]

TicketNotices ==
    UNION {{Notice(RequesterPayload(t, u), u, NULL),
            Notice(AdminPayload(t, u), u, NULL)} \cup
           {Notice(StatusChangedPayload(t, u, st), u, Some(st)) :
               st \in NoticeStatuses} :
              t \in NoticeTickets, u \in NoticeUsers}

CommentNotices ==
    UNION {{Notice(CommentRequesterPayload(t, c, u), u, Some(c.id)),
            Notice(CommentAdminPayload(t, c, u), u, Some(c.id))} :
              t \in NoticeTickets, c \in NoticeComments, u \in NoticeUsers}

Notices == TicketNotices \cup CommentNotices

\* mail_notifications.py lines 181-217, called by the notify_* functions of
\* ticket events outside create_ticket
enqueue_ticket_mail(e, notice) ==
    /\ ticket_pc = "none"
    /\ notice \in TicketNotices
    /\ notice.recipient_email # ""
    /\ EnqueueCall(e, notice)
    /\ UNCHANGED ticket_pc

\* mail_notifications.py lines 220-258, called by the notify_* functions of
\* comments
enqueue_comment_mail(e, notice) ==
    /\ ticket_pc = "none"
    /\ notice \in CommentNotices
    /\ notice.recipient_email # ""
    /\ EnqueueCall(e, notice)
    /\ UNCHANGED ticket_pc

\* ----------------------------------------------------------- _process_once
NoRows == [i \in {} |-> NoRow]

\* the rows some open dispatch transaction holds FOR UPDATE
Locked == UNION {DOMAIN wsession[w] : w \in Workers}

\* faulty variant: the WHERE clause without attempts < MAIL_MAX_ATTEMPTS
IsDueAnyAttempts(row, now) ==
    /\ row.status \in {"pending", "failed"}
    /\ row.next_attempt_at # NULL
    /\ Val(row.next_attempt_at) <= now

\* the WHERE clause of _load_pending
IsDue(row, now) ==
    /\ row.status \in {"pending", "failed"}
    /\ row.next_attempt_at # NULL
    /\ Val(row.next_attempt_at) <= now
    /\ row.attempts < MAIL_MAX_ATTEMPTS

\* with_for_update(skip_locked=True): rows locked by another transaction
\* are left out of the result
SkipLocked(ids) == ids \ Locked

\* the id sets SELECT ... FOR UPDATE SKIP LOCKED LIMIT 20 may return
_load_pending(now) ==
    LET due == SkipLocked({i \in Ids : IsDue(mail_logs[i], now)})
    IN IF Cardinality(due) <= LOAD_LIMIT
       THEN {due}
       ELSE {S \in SUBSET due : Cardinality(S) = LOAD_LIMIT}

\* lines 175-182: the transport check, `now`, and the locking select
_process_once(w) ==
    /\ w \in mail_workers
    /\ wpc[w] = "idle"
    /\ IF ~_is_smtp_ready
       THEN UNCHANGED worker_vars
       ELSE \E logs \in _load_pending(clock) :
               IF logs = {}
               THEN \* no row is due: the loop body never runs and the
                    \* commit has nothing to write
                    UNCHANGED worker_vars
               ELSE /\ wnow' = [wnow EXCEPT ![w] = clock]
                    /\ wsession' = [wsession EXCEPT ![w] =
                                       [i \in logs |-> mail_logs[i]]]
                    /\ wtodo' = [wtodo EXCEPT ![w] = logs]
                    /\ wpc' = [wpc EXCEPT ![w] = "loop"]
    /\ UNCHANGED <<config_vars, sync_vars,
                   clock, mail_logs, enqueue_vars, relay_vars>>

\* faulty variant: a delivered row is put back in the queue
MarkSentRequeues(log, now) ==
    [log EXCEPT !.status = "pending",
                !.attempts = @ + 1,
                !.last_attempt_at = Some(now),
                !.next_attempt_at = Some(now),
                !.error_message = NULL]

\* lines 197-201: the send succeeded
MarkSent(log, now) ==
    [log EXCEPT !.status = "sent",
                !.attempts = @ + 1,
                !.last_attempt_at = Some(now),
                !.next_attempt_at = NULL,
                !.error_message = NULL]

\* faulty variant: a failure that leaves attempts as it was
MarkFailedUncounted(log, now) ==
    [log EXCEPT !.status = "failed",
                !.last_attempt_at = Some(now),
                !.next_attempt_at = Some(now + _next_backoff(log.attempts + 1)),
                !.error_message = Some(ERR_SMTP)]

\* lines 204-208: the send raised
MarkFailed(log, now) ==
    [log EXCEPT !.attempts = @ + 1,
                !.status = "failed",
                !.last_attempt_at = Some(now),
                !.next_attempt_at = Some(now + _next_backoff(log.attempts + 1)),
                !.error_message = Some(ERR_SMTP)]

\* faulty variant: the exception of _send_message leaves the for loop
ProcessRowBreaks(w, i, delivered) ==
    /\ wpc[w] = "loop"
    /\ i \in wtodo[w]
    /\ LET log == wsession[w][i]
       IN /\ wsession' = [wsession EXCEPT ![w][i] =
                             IF delivered THEN MarkSent(log, wnow[w])
                             ELSE MarkFailed(log, wnow[w])]
          /\ accepted' = IF delivered
                         THEN [accepted EXCEPT ![log.event_key] = @ + 1]
                         ELSE accepted
          /\ sent_by' = IF delivered
                        THEN [sent_by EXCEPT ![log.event_key] = @ \cup {w}]
                        ELSE sent_by
    /\ wtodo' = [wtodo EXCEPT ![w] = IF delivered THEN @ \ {i} ELSE {}]
    /\ UNCHANGED <<config_vars, sync_vars,
                   clock, mail_logs, enqueue_vars, wpc, wnow,
                   aborts>>

\* lines 183-209: one iteration of the for loop; _send_message returns
\* (the relay accepted the mail) or raises
process_row(w, i, delivered) ==
    /\ wpc[w] = "loop"
    /\ i \in wtodo[w]
    /\ LET log == wsession[w][i]
       IN /\ wsession' = [wsession EXCEPT ![w][i] =
                             IF delivered THEN MarkSent(log, wnow[w])
                             ELSE MarkFailed(log, wnow[w])]
          /\ accepted' = IF delivered
                         THEN [accepted EXCEPT ![log.event_key] = @ + 1]
                         ELSE accepted
          /\ sent_by' = IF delivered
                        THEN [sent_by EXCEPT ![log.event_key] = @ \cup {w}]
                        ELSE sent_by
    /\ wtodo' = [wtodo EXCEPT ![w] = @ \ {i}]
    /\ UNCHANGED <<config_vars, sync_vars,
                   clock, mail_logs, enqueue_vars, wpc, wnow,
                   aborts>>

WorkerEnd(w) ==
    /\ wpc' = [wpc EXCEPT ![w] = "idle"]
    /\ wnow' = [wnow EXCEPT ![w] = 0]
    /\ wsession' = [wsession EXCEPT ![w] = NoRows]
    /\ wtodo' = [wtodo EXCEPT ![w] = {}]

\* line 210: session.commit() writes the rows of the batch and drops the locks
process_commit(w) ==
    /\ wpc[w] = "loop"
    /\ wtodo[w] = {}
    /\ mail_logs' = [i \in Ids |->
                        IF i \in DOMAIN wsession[w]
                        THEN [wsession[w][i] EXCEPT !.updated_at = wnow[w]]
                        ELSE mail_logs[i]]
    /\ WorkerEnd(w)
    /\ UNCHANGED <<config_vars, sync_vars, clock, enqueue_vars, relay_vars>>

\* the cycle ends without its commit (the commit raises, or the process is
\* stopped inside the loop): the transaction is rolled back, the locks drop
process_abort(w) ==
    /\ wpc[w] = "loop"
    /\ aborts < MaxAborts
    /\ aborts' = aborts + 1
    /\ WorkerEnd(w)
    /\ UNCHANGED <<config_vars, sync_vars,
                   clock, mail_logs, enqueue_vars, accepted,
                   sent_by>>

\* ------------------------------------------------------------------- time
Tick(t) ==
    /\ t \in horizon
    /\ t > clock
    /\ clock' = t
    /\ UNCHANGED <<config_vars, sync_vars,
                   mail_logs, enqueue_vars, worker_vars, relay_vars>>

\* _worker_loop sleeps MAIL_POLL_SECONDS between cycles, and the instants
\* of TimeLine lie at least 60 seconds apart: before the clock reaches the
\* next instant every request has returned, every worker has finished its
\* cycle and a cycle has looked at every row that is due; no instant is
\* passed over
TickAfterPoll(t) ==
    /\ \A u \in horizon : u > clock => t <= u
    /\ \A w \in mail_workers : wpc[w] = "idle"
    /\ \A e \in request_threads : epc[e] = "idle"
    /\ _is_smtp_ready => \A i \in Ids : ~IsDue(mail_logs[i], clock)
    /\ Tick(t)

\* ---------------------------------------------------------------- restart
\* the process is stopped while no request and no dispatch cycle is open and
\* started again with the SMTP settings the operator gives it; the table
\* keeps its rows
Reconfigure(host, from) ==
    /\ \A e \in EnqueueThreads : epc[e] = "idle"
    /\ \A w \in Workers : wpc[w] = "idle"
    /\ smtp_host' = host
    /\ smtp_from' = from
    /\ UNCHANGED <<request_threads, mail_workers, inputs, horizon, sync_vars,
                   clock, mail_logs, enqueue_vars, worker_vars, relay_vars>>

\* --------------------------------------------------------------- user sync
\* _load_config() returns a SyncConfig
HasSyncConfig == sync_enabled /\ sync_source_database_url # ""

NoUser == NULL

Greatest(a, b) == IF a > b THEN a ELSE b

\* the WHERE clauses both queries share: the gp_master row has the prefix and
\* the allowed work_tp / emp_tp, and ca_user_m holds a password
Selected(emp_no) == source[emp_no].listed /\ source[emp_no].password # NULL

\* the result set of _source_query_password
_source_query_password(last_sync) ==
    {[emp_no |-> emp_no,
      password |-> Val(source[emp_no].password),
      updated_at |-> source[emp_no].cu_update] :
        emp_no \in {x \in EmpNos : /\ Selected(x)
                                   /\ source[x].cu_update > last_sync}}

\* GREATEST(gm.update_dtime, cu.update_dtime, ...) of the profile query
ProfileUpdatedAt(emp_no) ==
    Greatest(source[emp_no].gm_update, source[emp_no].cu_update)

\* the result set of _source_query_profile
_source_query_profile(last_sync) ==
    {[emp_no |-> emp_no,
      profile |-> Profile(emp_no, source[emp_no].version),
      password |-> Val(source[emp_no].password),
      updated_at |-> ProfileUpdatedAt(emp_no)] :
        emp_no \in {x \in EmpNos : /\ Selected(x)
                                   /\ ProfileUpdatedAt(x) > last_sync}}

\* state.last_synced_at if state and state.last_synced_at else 1970-01-01
LastSyncedOrEpoch(key) ==
    IF sync_state[key] # NULL THEN Val(sync_state[key]) ELSE EPOCH

\* faulty variant: the flag is never consumed
ProfileLastSyncForced ==
    IF sync_force_full THEN EPOCH
    ELSE LastSyncedOrEpoch(SYNC_KEY_PROFILE)

\* lines 181-188: the lower bound of the profile query
ProfileLastSync ==
    IF sync_force_full /\ ~_force_full_done THEN EPOCH
    ELSE LastSyncedOrEpoch(SYNC_KEY_PROFILE)

\* faulty variant: an absent employee is inserted with the password
UpdateOrInsertPassword(table, row, now) ==
    IF table[row.emp_no] = NoUser
    THEN [table EXCEPT ![row.emp_no] =
             Some([kor_name |-> "", eng_name |-> "", title |-> "",
                   department |-> "", password |-> row.password,
                   email |-> "", role |-> "requester", is_verified |-> TRUE,
                   created_at |-> now, updated_at |-> now])]
    ELSE [table EXCEPT ![row.emp_no] =
             Some([Val(@) EXCEPT !.password = row.password,
                                 !.updated_at = now])]

\* UPDATE users SET password = :password, updated_at = NOW()
\* WHERE emp_no = :emp_no
UpdatePassword(table, row, now) ==
    IF table[row.emp_no] = NoUser THEN table
    ELSE [table EXCEPT ![row.emp_no] =
             Some([Val(@) EXCEPT !.password = row.password,
                                 !.updated_at = now])]

\* faulty variant: the conflict branch writes every column of the INSERT
UpsertOverwrites(table, row, now) ==
    [table EXCEPT ![row.emp_no] =
        Some([kor_name |-> row.profile.kor_name,
              eng_name |-> row.profile.eng_name,
              title |-> row.profile.title,
              department |-> row.profile.department,
              password |-> row.password,
              email |-> row.profile.email,
              role |-> "requester",
              is_verified |-> TRUE,
              created_at |-> now,
              updated_at |-> now])]

\* INSERT INTO users ... ON CONFLICT (emp_no) DO UPDATE SET ...
UpsertProfile(table, row, now) ==
    IF table[row.emp_no] = NoUser
    THEN [table EXCEPT ![row.emp_no] =
             Some([kor_name |-> row.profile.kor_name,
                   eng_name |-> row.profile.eng_name,
                   title |-> row.profile.title,
                   department |-> row.profile.department,
                   password |-> row.password,
                   email |-> row.profile.email,
                   role |-> "requester",
                   is_verified |-> TRUE,
                   created_at |-> now,
                   updated_at |-> now])]
    ELSE [table EXCEPT ![row.emp_no] =
             Some([Val(@) EXCEPT !.kor_name = row.profile.kor_name,
                                 !.eng_name = row.profile.eng_name,
                                 !.title = row.profile.title,
                                 !.department = row.profile.department,
                                 !.email = row.profile.email,
                                 !.updated_at = now])]

\* the call is over: its session and its locals are gone
SyncReturn(result) ==
    /\ sync_pc' = "idle"
    /\ sync_task' = ""
    /\ source_rows' = {}
    /\ fetched' = {}
    /\ max_updated' = NULL
    /\ affected' = 0
    /\ tx_users' = users'
    /\ sync_result' = result

\* lines 121-137 and 169-193: the configuration, the connections, the
\* watermark and the source query; `reachable` is whether the source
\* database answers
SyncBegin(key, last_sync, result_set, reachable) ==
    /\ IF ~HasSyncConfig
       THEN /\ sync_result' = "skipped"
            /\ UNCHANGED sync_locals
       ELSE IF ~reachable
       THEN /\ sync_result' = "raised"
            /\ UNCHANGED sync_locals
       ELSE /\ sync_pc' = "loop"
            /\ sync_task' = key
            /\ source_rows' = result_set
            /\ fetched' = result_set
            /\ max_updated' = NULL
            /\ affected' = 0
            /\ tx_users' = users
            /\ sync_result' = "running"
    /\ UNCHANGED <<mail_vars, clock, sync_settings, _force_full_done, source,
                   users, sync_state>>

PasswordCall(reachable) ==
    LET last_sync == LastSyncedOrEpoch(SYNC_KEY_PASSWORD)
    IN SyncBegin(SYNC_KEY_PASSWORD, last_sync,
                 _source_query_password(last_sync), reachable)

\* a run of the password sync on its own, the loop left out
sync_password_once(reachable) ==
    /\ sync_pc = "idle"
    /\ loop_pc = "off"
    /\ PasswordCall(reachable)
    /\ UNCHANGED loop_vars

ProfileCall(reachable) ==
    LET last_sync == ProfileLastSync
    IN SyncBegin(SYNC_KEY_PROFILE, last_sync,
                 _source_query_profile(last_sync), reachable)

\* a run of the profile sync on its own, the loop left out
sync_profile_once(reachable) ==
    /\ sync_pc = "idle"
    /\ loop_pc = "off"
    /\ ProfileCall(reachable)
    /\ UNCHANGED loop_vars

\* faulty variant: keeps the updated_at of the last row instead of the largest
TrackLast(row) ==
    /\ affected' = affected + 1
    /\ max_updated' = Some(row.updated_at)

\* lines 140-143 and 196-199
TrackMax(row) ==
    /\ affected' = affected + 1
    /\ max_updated' = IF max_updated = NULL \/ row.updated_at > Val(max_updated)
                      THEN Some(row.updated_at)
                      ELSE max_updated

\* lines 139-153: one iteration of the password loop, on the row of emp_no
password_row(emp_no) ==
    /\ sync_pc = "loop"
    /\ sync_task = SYNC_KEY_PASSWORD
    /\ \E row \in source_rows :
          /\ row.emp_no = emp_no
          /\ TrackMax(row)
          /\ tx_users' = UpdatePassword(tx_users, row, clock)
          /\ source_rows' = source_rows \ {row}
    /\ UNCHANGED <<mail_vars, loop_vars, clock, sync_settings, _force_full_done, source,
                   users, sync_state, sync_pc, sync_task, fetched,
                   sync_result>>

\* lines 195-247: one iteration of the profile loop, on the row of emp_no
profile_row(emp_no) ==
    /\ sync_pc = "loop"
    /\ sync_task = SYNC_KEY_PROFILE
    /\ \E row \in source_rows :
          /\ row.emp_no = emp_no
          /\ TrackMax(row)
          /\ tx_users' = UpsertProfile(tx_users, row, clock)
          /\ source_rows' = source_rows \ {row}
    /\ UNCHANGED <<mail_vars, loop_vars, clock, sync_settings, _force_full_done, source,
                   users, sync_state, sync_pc, sync_task, fetched,
                   sync_result>>

\* lines 155-160 and 249-257: the watermark, the commit, the force flag
sync_commit ==
    /\ sync_pc = "loop"
    /\ source_rows = {}
    /\ sync_state' =
          IF affected # 0
          THEN [sync_state EXCEPT ![sync_task] =
                   IF max_updated # NULL THEN max_updated ELSE Some(clock)]
          ELSE sync_state
    /\ users' = tx_users
    /\ _force_full_done' =
          IF sync_task = SYNC_KEY_PROFILE /\ sync_force_full
          THEN TRUE ELSE _force_full_done
    /\ SyncReturn("completed")
    /\ UNCHANGED <<mail_vars, loop_vars, clock, sync_settings, source>>

\* faulty variant: the changes of the session survive the exception
RollbackKeepsSession(committed, session) == session

\* what the tables hold after a transaction that never committed
Rollback(committed, session) == committed

\* the run raises inside the loop or in its commit: the with block closes
\* the session, which rolls the transaction back; _sync_loop logs it.
\* sync_result tells a rollback that discarded changes from one that had
\* nothing to discard
sync_raise ==
    /\ sync_pc = "loop"
    /\ users' = Rollback(users, tx_users)
    /\ SyncReturn(IF tx_users # users THEN "rolled_back" ELSE "raised")
    /\ UNCHANGED <<mail_vars, loop_vars, clock, sync_settings, _force_full_done, source,
                   sync_state>>

\* ------------------------------------------------------- the HR database
\* the HR system stamps a change with the current time, later than the
\* stamps it gave before; a run reads the source in one statement, so a
\* change made while the loop applies its rows is the same change made
\* right after the run, and only that order is modelled
HrChange(emp_no, row) ==
    /\ sync_pc = "idle"
    /\ \A x \in EmpNos : /\ source[x].cu_update < clock
                         /\ source[x].gm_update < clock
    /\ source' = [source EXCEPT ![emp_no] = row]
    /\ UNCHANGED <<mail_vars, loop_vars, clock, sync_settings, _force_full_done, users,
                   sync_state, sync_locals, sync_result>>

\* ca_user_m: a new password
HrSetsPassword(emp_no, password) ==
    /\ source[emp_no].password # Some(password)
    /\ HrChange(emp_no, [source[emp_no] EXCEPT !.password = Some(password),
                                               !.cu_update = clock])

\* gp_master: new profile data
HrEditsProfile(emp_no) ==
    /\ source[emp_no].listed
    /\ HrChange(emp_no, [source[emp_no] EXCEPT !.version = @ + 1,
                                            !.gm_update = clock])

\* gp_master: work_tp / emp_tp leave the allowed values
HrRetires(emp_no) ==
    /\ source[emp_no].listed
    /\ HrChange(emp_no, [source[emp_no] EXCEPT !.listed = FALSE,
                                               !.gm_update = clock])

\* the process is stopped and started again, with SYNC_FORCE_FULL as the
\* operator set it: the module globals are fresh, an open session is rolled
\* back
ProcessRestart(force_full) ==
    /\ HasSyncConfig
    /\ loop_pc = "off"
    /\ sync_force_full' = force_full
    /\ _force_full_done' = FALSE
    /\ users' = users
    /\ SyncReturn("none")
    /\ UNCHANGED <<mail_vars, loop_vars, clock, sync_enabled, sync_source_database_url,
                   source, sync_state>>

\* ------------------------------------------------------------ _sync_loop
\* time.time()
time_time == PROCESS_START + clock

\* datetime.now(KST).hour and .date() (as a day number) at time.time() = ts
KstHour(ts) == ((ts + 9 * 3600) \div 3600) % 24
KstDate(ts) == (ts + 9 * 3600) \div 86400

\* line 283
PasswordDue(ts) == ts - last_password_run >= cfg.password_interval_seconds

\* lines 288-290
ProfileDue(ts) ==
    /\ KstHour(ts) = cfg.full_at_hour_kst
    /\ IF last_profile_date_kst = NULL THEN TRUE
       ELSE KstDate(ts) > KstDate(Val(last_profile_date_kst))

\* the sync_*_once call of the tick has returned
CallReturned == sync_pc = "idle" /\ sync_result \in {"completed", "skipped"}

\* the sync_*_once call of the tick has raised
CallRaised == sync_pc = "idle" /\ sync_result \in {"raised", "rolled_back"}

\* the thread sleeps and the sleep of the last tick is over
LoopWakes == loop_pc = "sleep" /\ clock >= loop_wake

\* line 296: the tick is over, its locals are dead
LoopSleeps ==
    /\ loop_pc' = "sleep"
    /\ loop_wake' = clock + CHECK_INTERVAL
    /\ now_ts' = 0

\* lines 279-284: a tick begins and the password sync is due
loop_password(reachable) ==
    /\ LoopWakes
    /\ PasswordDue(time_time)
    /\ now_ts' = time_time
    /\ loop_pc' = "password"
    /\ PasswordCall(reachable)
    /\ UNCHANGED <<cfg, loop_wake, last_password_run, last_profile_date_kst>>

\* lines 285-291: sync_password_once has returned and the profile sync is due
loop_password_then_profile(reachable) ==
    /\ loop_pc = "password"
    /\ CallReturned
    /\ ProfileDue(now_ts)
    /\ last_password_run' = now_ts
    /\ loop_pc' = "profile"
    /\ ProfileCall(reachable)
    /\ UNCHANGED <<cfg, loop_wake, now_ts, last_profile_date_kst>>

\* lines 285-296: sync_password_once has returned and the profile sync is
\* not due
loop_password_done ==
    /\ loop_pc = "password"
    /\ CallReturned
    /\ ~ProfileDue(now_ts)
    /\ last_password_run' = now_ts
    /\ LoopSleeps
    /\ UNCHANGED <<mail_vars, clock, sync_settings, _force_full_done, source,
                   users, sync_state, sync_locals, sync_result, cfg,
                   last_profile_date_kst>>

\* lines 279-291: a tick begins, the password sync is not due and the
\* profile sync is
loop_profile(reachable) ==
    /\ LoopWakes
    /\ ~PasswordDue(time_time)
    /\ ProfileDue(time_time)
    /\ now_ts' = time_time
    /\ loop_pc' = "profile"
    /\ ProfileCall(reachable)
    /\ UNCHANGED <<cfg, loop_wake, last_password_run, last_profile_date_kst>>

\* lines 292-296: sync_profile_once has returned
loop_profile_done ==
    /\ loop_pc = "profile"
    /\ CallReturned
    /\ last_profile_date_kst' = Some(now_ts)
    /\ LoopSleeps
    /\ UNCHANGED <<mail_vars, clock, sync_settings, _force_full_done, source,
                   users, sync_state, sync_locals, sync_result, cfg,
                   last_password_run>>

\* lines 279-296: a tick in which neither task is due
loop_idle ==
    /\ LoopWakes
    /\ ~PasswordDue(time_time)
    /\ ~ProfileDue(time_time)
    /\ LoopSleeps
    /\ UNCHANGED <<mail_vars, clock, sync_settings, _force_full_done, source,
                   users, sync_state, sync_locals, sync_result, cfg,
                   last_password_run, last_profile_date_kst>>

\* faulty variant: the exception leaves the while loop and the thread ends
LoopExceptPropagates ==
    /\ loop_pc \in {"password", "profile"}
    /\ CallRaised
    /\ loop_pc' = "off"
    /\ loop_wake' = 0
    /\ now_ts' = 0
    /\ UNCHANGED <<mail_vars, clock, sync_settings, _force_full_done, source,
                   users, sync_state, sync_locals, sync_result, cfg,
                   last_password_run, last_profile_date_kst>>

\* lines 293-296: the call of the tick raised; the except clause logs it
\* and the rest of the try block is skipped
loop_except ==
    /\ loop_pc \in {"password", "profile"}
    /\ CallRaised
    /\ LoopSleeps
    /\ UNCHANGED <<mail_vars, clock, sync_settings, _force_full_done, source,
                   users, sync_state, sync_locals, sync_result, cfg,
                   last_password_run, last_profile_date_kst>>

\* ------------------------------------------------------------ specification
MailIdle(threads, workers, payloads, instants) ==
    /\ smtp_host \in {"", "smtp.local"}
    /\ smtp_from \in {"", "desk@ex.com"}
    /\ request_threads = threads
    /\ mail_workers = workers
    /\ inputs = payloads
    /\ horizon = instants
    /\ clock = 0
    /\ epc = [e \in EnqueueThreads |-> "idle"]
    /\ enow = [e \in EnqueueThreads |-> 0]
    /\ etx = [e \in EnqueueThreads |-> NULL]
    /\ erow = [e \in EnqueueThreads |-> NoRow]
    /\ eresult = [e \in EnqueueThreads |-> "none"]
    /\ eseen = [e \in EnqueueThreads |-> FALSE]
    /\ ecool = [e \in EnqueueThreads |-> FALSE]
    /\ wpc = [w \in Workers |-> "idle"]
    /\ wnow = [w \in Workers |-> 0]
    /\ wsession = [w \in Workers |-> NoRows]
    /\ wtodo = [w \in Workers |-> {}]
    /\ accepted = [k \in EventKeys \cup {p.event_key : p \in payloads} |-> 0]
    /\ sent_by = [k \in EventKeys \cup {p.event_key : p \in payloads} |-> {}]
    /\ aborts = 0

\* the mail subsystem when the process starts on an empty table
MailInit(threads, workers, payloads, instants) ==
    /\ MailIdle(threads, workers, payloads, instants)
    /\ mail_logs = <<>>

\* the HR database and the local tables when the process starts
SyncInit(enabled, urls, force_full) ==
    /\ sync_enabled \in enabled
    /\ sync_source_database_url \in urls
    /\ sync_force_full \in force_full
    /\ _force_full_done = FALSE
    /\ source = [emp_no \in EmpNos |->
                    [listed |-> TRUE, password |-> Some("pw1"), version |-> 1,
                     cu_update |-> HR_START, gm_update |-> HR_START]]
    /\ users = [emp_no \in EmpNos |->
                   IF emp_no = "30001"
                   THEN Some([kor_name |-> "local", eng_name |-> "local",
                              title |-> "local", department |-> "local",
                              password |-> "local", email |-> "local",
                              role |-> "admin", is_verified |-> FALSE,
                              created_at |-> HR_START,
                              updated_at |-> HR_START])
                   ELSE NoUser]
    /\ sync_state = [key \in SyncKeys |-> NULL]
    /\ sync_pc = "idle"
    /\ sync_task = ""
    /\ source_rows = {}
    /\ fetched = {}
    /\ max_updated = NULL
    /\ affected = 0
    /\ tx_users = users
    /\ sync_result = "none"

\* the locals of _sync_loop when the thread starts (lines 269-275), or
\* when there is no thread
LoopInit(configs, started) ==
    /\ cfg \in configs
    /\ loop_pc = IF started THEN "sleep" ELSE "off"
    /\ loop_wake = 0
    /\ now_ts = 0
    /\ last_password_run = 0
    /\ last_profile_date_kst = NULL

\* the sync thread left out
NoSyncLoop ==
    LoopInit({[password_interval_seconds |-> 60, full_at_hour_kst |-> 0]},
             FALSE)

\* the mail subsystem with the user sync switched off
InitWith(threads, workers, payloads, instants) ==
    /\ MailInit(threads, workers, payloads, instants)
    /\ ticket_pc = "none"
    /\ SyncInit({FALSE}, {""}, {FALSE})
    /\ NoSyncLoop

\* the user sync alone: no caller enqueues mail, no mail worker runs
InitSync ==
    /\ MailInit({}, {}, {}, Instants(MaxSyncInstants))
    /\ ticket_pc = "none"
    /\ smtp_host = ""
    /\ smtp_from = ""
    /\ SyncInit(BOOLEAN, {"postgresql://hr"}, BOOLEAN)
    /\ NoSyncLoop

\* one request thread and one worker, every payload
Init == InitWith({"e1"}, {"w1"}, Payloads, Instants(MaxInstants))

\* one request thread and one worker, the base payload under each key,
\* followed until the last backoff delay has passed
InitRetry ==
    InitWith({"e1"}, {"w1"}, BasePayloads, Instants(MaxRetryInstants))

\* one request thread and one worker, the base payload under each key,
\* followed until a row that failed twice is delivered
InitCooldown ==
    InitWith({"e1"}, {"w1"}, BasePayloads, Instants(MaxCooldownInstants))

\* two request threads that enqueue the same event
InitRace ==
    InitWith(EnqueueThreads, {"w1"},
             {p \in BasePayloads : p.event_key = "k1"},
             Instants(MaxInstants))

\* two workers
InitWorkers ==
    InitWith({"e1"}, Workers, BasePayloads, Instants(MaxInstants))

\* two workers and one event, followed until the last backoff delay has passed
InitWorkersRetry ==
    InitWith({"e1"}, Workers, {p \in BasePayloads : p.event_key = "k1"},
             Instants(MaxRetryInstants))

\* one create_ticket request, by one requester in a category with one admin,
\* with the transport configured
InitTicket ==
    /\ \E admin \in CategoryAdmins :
          MailInit({"e1"}, {"w1"},
                   {RequesterPayload(NewTicket, Requester),
                    AdminPayload(NewTicket, admin)},
                   Instants(MaxInstants))
    /\ _is_smtp_ready
    /\ ticket_pc = "requester"
    /\ SyncInit({FALSE}, {""}, {FALSE})
    /\ NoSyncLoop

\* one request thread, one worker and one event, in a process that may be
\* restarted with other SMTP settings
InitReconfigure ==
    InitWith({"e1"}, {"w1"}, {p \in BasePayloads : p.event_key = "k1"},
             Instants(MaxInstants))

\* the sync thread alone, started with the sync configured
InitLoop ==
    /\ MailInit({}, {}, {}, LoopInstants(MaxLoopInstants))
    /\ ticket_pc = "none"
    /\ smtp_host = ""
    /\ smtp_from = ""
    /\ SyncInit({TRUE}, {"postgresql://hr"}, BOOLEAN)
    /\ LoopInit(SyncConfigs, TRUE)

\* both background threads, started by main.py with SMTP and the sync
\* configured, on a table that holds one mail a request has just queued
InitThreads ==
    /\ MailIdle({}, {"w1"}, {p \in BasePayloads : p.event_key = "k1"},
                LoopInstants(MaxThreadInstants))
    /\ mail_logs = <<MailLog([event_key |-> "k1",
                              event_type |-> BasePayload.event_type,
                              ticket_id |-> BasePayload.ticket_id,
                              recipient_email |-> BasePayload.recipient_email],
                             "pending", NULL, Some(0), NULL, 0)>>
    /\ _is_smtp_ready
    /\ ticket_pc = "none"
    /\ SyncInit({TRUE}, {"postgresql://hr"}, {FALSE})
    /\ LoopInit({c \in SyncConfigs : c.password_interval_seconds = 3600},
                TRUE)

\* one request thread that issues two of the notifications
InitNotices ==
    /\ \E a, b \in Notices :
          MailInit({"e1"}, {}, {a, b}, Instants(1))
    /\ _is_smtp_ready
    /\ ticket_pc = "none"
    /\ SyncInit({FALSE}, {""}, {FALSE})
    /\ NoSyncLoop

Next ==
    \/ \E e \in EnqueueThreads, payload \in Payloads :
          enqueue_mail(e, payload)
    \/ \E e \in EnqueueThreads : enqueue_exists(e)
    \/ \E e \in EnqueueThreads : enqueue_commit(e)
    \/ \E w \in Workers : _process_once(w)
    \/ \E w \in Workers, i \in RowIds, delivered \in BOOLEAN :
          process_row(w, i, delivered)
    \/ \E w \in Workers : process_commit(w)
    \/ \E w \in Workers : process_abort(w)
    \/ \E t \in Instants(Len(TimeLine)) : Tick(t)

\* the sync thread and the HR system
NextSync ==
    \/ \E reachable \in BOOLEAN : sync_password_once(reachable)
    \/ \E reachable \in BOOLEAN : sync_profile_once(reachable)
    \/ \E emp_no \in EmpNos : password_row(emp_no)
    \/ \E emp_no \in EmpNos : profile_row(emp_no)
    \/ sync_commit
    \/ sync_raise
    \/ \E emp_no \in EmpNos, password \in Passwords :
          HrSetsPassword(emp_no, password)
    \/ \E emp_no \in EmpNos : HrEditsProfile(emp_no)
    \/ \E emp_no \in EmpNos : HrRetires(emp_no)
    \/ \E force_full \in BOOLEAN : ProcessRestart(force_full)
    \/ \E t \in Instants(Len(TimeLine)) : Tick(t)

\* the sync thread
NextLoop ==
    \/ \E reachable \in BOOLEAN : loop_password(reachable)
    \/ \E reachable \in BOOLEAN : loop_password_then_profile(reachable)
    \/ loop_password_done
    \/ \E reachable \in BOOLEAN : loop_profile(reachable)
    \/ loop_profile_done
    \/ loop_idle
    \/ loop_except
    \/ \E emp_no \in EmpNos : password_row(emp_no)
    \/ \E emp_no \in EmpNos : profile_row(emp_no)
    \/ sync_commit
    \/ sync_raise
    \/ \E t \in LoopInstants(Len(LoopTimeLine)) : Tick(t)

\* the mail worker thread and the sync thread
NextThreads ==
    \/ \E w \in Workers : _process_once(w)
    \/ \E w \in Workers, i \in RowIds, delivered \in BOOLEAN :
          process_row(w, i, delivered)
    \/ \E w \in Workers : process_commit(w)
    \/ \E w \in Workers : process_abort(w)
    \/ \E reachable \in BOOLEAN : loop_password(reachable)
    \/ \E reachable \in BOOLEAN : loop_password_then_profile(reachable)
    \/ loop_password_done
    \/ \E reachable \in BOOLEAN : loop_profile(reachable)
    \/ loop_profile_done
    \/ loop_idle
    \/ loop_except
    \/ \E emp_no \in EmpNos : password_row(emp_no)
    \/ \E emp_no \in EmpNos : profile_row(emp_no)
    \/ sync_commit
    \/ sync_raise
    \/ \E t \in LoopInstants(Len(LoopTimeLine)) : Tick(t)

\* the notifications of the routers
NextNotices ==
    \/ \E e \in EnqueueThreads, notice \in Notices :
          enqueue_ticket_mail(e, notice)
    \/ \E e \in EnqueueThreads, notice \in Notices :
          enqueue_comment_mail(e, notice)
    \/ \E e \in EnqueueThreads : enqueue_exists(e)
    \/ \E e \in EnqueueThreads : enqueue_commit(e)

\* the create_ticket request and the mail worker
NextTicket ==
    \/ \E e \in EnqueueThreads : notify_requester_ticket_created(e)
    \/ \E e \in EnqueueThreads : notify_admins_ticket_created(e)
    \/ \E e \in EnqueueThreads : create_ticket_returns(e)
    \/ \E e \in EnqueueThreads : enqueue_exists(e)
    \/ \E e \in EnqueueThreads : enqueue_commit(e)
    \/ \E w \in Workers : _process_once(w)
    \/ \E w \in Workers, i \in RowIds, delivered \in BOOLEAN :
          process_row(w, i, delivered)
    \/ \E w \in Workers : process_commit(w)
    \/ \E w \in Workers : process_abort(w)
    \/ \E t \in Instants(Len(TimeLine)) : Tick(t)

\* the mail subsystem of a process that is restarted with other settings
NextReconfigure ==
    \/ Next
    \/ \E host \in {"", "smtp.local"}, from \in {"", "desk@ex.com"} :
          Reconfigure(host, from)

\* the mail subsystem with the clock held back until the workers have polled
NextPolling ==
    \/ \E e \in EnqueueThreads, payload \in Payloads :
          enqueue_mail(e, payload)
    \/ \E e \in EnqueueThreads : enqueue_exists(e)
    \/ \E e \in EnqueueThreads : enqueue_commit(e)
    \/ \E w \in Workers : _process_once(w)
    \/ \E w \in Workers, i \in RowIds, delivered \in BOOLEAN :
          process_row(w, i, delivered)
    \/ \E w \in Workers : process_commit(w)
    \/ \E w \in Workers : process_abort(w)
    \/ \E t \in Instants(Len(TimeLine)) : TickAfterPoll(t)

\* every worker keeps polling (each step of its cycle is taken once it can
\* be), a request that began goes on to its end, and time advances,
\* however often requests and cycles begin
PollingFairness ==
    /\ \A e \in EnqueueThreads :
          /\ WF_vars(enqueue_exists(e))
          /\ WF_vars(enqueue_commit(e))
    /\ \A w \in Workers :
          /\ WF_vars(_process_once(w))
          /\ WF_vars(\E i \in RowIds, delivered \in BOOLEAN :
                        process_row(w, i, delivered))
          /\ WF_vars(process_commit(w))
    /\ SF_vars(\E t \in Instants(Len(TimeLine)) : TickAfterPoll(t))

Spec == Init /\ [][Next]_vars
SpecPolling == InitWorkersRetry /\ [][NextPolling]_vars /\ PollingFairness
SpecReconfigure == InitReconfigure /\ [][NextReconfigure]_vars
SpecTicket == InitTicket /\ [][NextTicket]_vars
SpecNotices == InitNotices /\ [][NextNotices]_vars
SpecSync == InitSync /\ [][NextSync]_vars
SpecLoop == InitLoop /\ [][NextLoop]_vars
SpecThreads == InitThreads /\ [][NextThreads]_vars
SpecRetry == InitRetry /\ [][Next]_vars
SpecCooldown == InitCooldown /\ [][Next]_vars
SpecRace == InitRace /\ [][Next]_vars
SpecWorkers == InitWorkers /\ [][Next]_vars
SpecWorkersRetry == InitWorkersRetry /\ [][Next]_vars

\* ------------------------------------------------------------------ claims
RowsWithKey(rows, k) == {i \in 1..Len(rows) : rows[i].event_key = k}

\* a call of thread e ends in this step
CallEnds(e) == epc[e] # "idle" /\ epc'[e] = "idle"

\* C1: the table never holds two rows with one event_key, and when an
\* enqueue_mail call ends (it returned or it raised) exactly one row holds the
\* key of that call, however many calls were made for the key before.
C1_OneRecordPerEventKey ==
    [][/\ \A k \in EventKeys : Cardinality(RowsWithKey(mail_logs', k)) <= 1
       /\ \A e \in EnqueueThreads :
             CallEnds(e) =>
                Cardinality(RowsWithKey(mail_logs', erow[e].event_key)) = 1]_vars

\* a second call for a key has ended and the key has one row
C1_Witness ==
    \E e \in EnqueueThreads :
       /\ eresult[e] \in {"duplicate", "IntegrityError"}
       /\ eseen[e]
       /\ \E k \in EventKeys : Cardinality(RowsWithKey(mail_logs, k)) = 1

\* C2: for every event_key the relay accepts the mail of that event at most
\* once, cycles that end without their commit included.
C2_AtMostOnceDelivery == \A k \in EventKeys : accepted[k] <= 1

\* C3: a call whose event_key already had a row when the call began ends
\* without raising and leaves the table as it was.
C3_DuplicateKeyIgnored ==
    [][\A e \in EnqueueThreads :
          (CallEnds(e) /\ eseen[e])
          => (eresult'[e] # "IntegrityError" /\ mail_logs' = mail_logs)]_vars

\* C4: two enqueue_mail calls for one event_key that both passed the
\* existence check commit at most one row: the commit of a thread whose key
\* has a row by then stores nothing and raises IntegrityError.
C4_RaceCommitsOneRow ==
    /\ [](\A k \in EventKeys : Cardinality(RowsWithKey(mail_logs, k)) <= 1)
    /\ [][\A e \in EnqueueThreads :
             (/\ epc[e] = "commit"
              /\ epc'[e] = "idle"
              /\ RowsWithKey(mail_logs, erow[e].event_key) # {})
             => (mail_logs' = mail_logs /\ eresult'[e] = "IntegrityError")]_vars

\* a call whose key had no row when it began was refused by the index
C4_Witness ==
    \E e \in EnqueueThreads :
       /\ eresult[e] = "IntegrityError"
       /\ ~eseen[e]
       /\ Cardinality(RowsWithKey(mail_logs, "k1")) = 1

\* C5: no row is held by two workers at once, and no event's mail is
\* accepted by the relay from more than one worker.
C5_NoRowSentByTwoWorkers ==
    /\ \A w1, w2 \in Workers :
          w1 # w2 => DOMAIN wsession[w1] \cap DOMAIN wsession[w2] = {}
    /\ \A k \in EventKeys : Cardinality(sent_by[k]) <= 1

\* the call of thread e begins in this step and goes on to the database
CallBegins(e) == epc[e] = "idle" /\ epc'[e] # "idle"

\* the call of thread e ends in this step, after its insert
InsertEnds(e) == epc[e] = "commit" /\ epc'[e] = "idle"

\* the table gains `row`, stamped by the server
Stored(row) ==
    /\ Len(mail_logs') = Len(mail_logs) + 1
    /\ \A f \in DOMAIN row \ {"created_at", "updated_at"} :
          mail_logs'[Len(mail_logs')][f] = row[f]

\* C6: a call that follows a sent row of its (recipient_email, event_type,
\* ticket_id), held under another event_key, by at most 60 seconds prepares a
\* skipped row and never a pending one, and the call stores that row.
C6_CooldownStoresSkipped ==
    [][\A e \in EnqueueThreads :
          /\ (CallBegins(e) /\ ecool'[e])
             => (/\ epc'[e] = "commit"
                 /\ erow'[e].status = "skipped"
                 /\ erow'[e].error_message # NULL)
          /\ (InsertEnds(e) /\ ecool[e])
             => (erow[e].status = "skipped" /\ Stored(erow[e]))]_vars

Malformed == {"", "not-an-address"}

\* C7: with SMTP configured, a call with an empty or malformed recipient
\* address prepares a skipped row with an error_message and never a pending
\* one, the call stores that row, and no worker ever loads such a row.
C7_MalformedStoresSkipped ==
    [][/\ \A e \in EnqueueThreads :
             /\ (CallBegins(e) /\ erow'[e].recipient_email \in Malformed)
                => (/\ epc'[e] = "commit"
                    /\ erow'[e].status = "skipped"
                    /\ erow'[e].error_message # NULL)
             /\ (InsertEnds(e) /\ erow[e].recipient_email \in Malformed)
                => Stored(erow[e])
       /\ \A w \in Workers : \A i \in DOMAIN wsession'[w] :
             wsession'[w][i].recipient_email \notin Malformed]_vars

\* sent, skipped, or failed with the attempts used up
Terminal(row) ==
    \/ row.status \in {"sent", "skipped"}
    \/ row.status = "failed" /\ row.attempts = 3

\* C8: a row that is sent, skipped, or failed with attempts = 3 is in no
\* worker's batch, now or after any step; no step changes a field of it, and
\* the relay accepts no further mail for its event.
C8_TerminalNeverSelected ==
    [][\A i \in Ids :
          Terminal(mail_logs[i])
          => /\ mail_logs'[i] = mail_logs[i]
             /\ accepted'[mail_logs[i].event_key] =
                   accepted[mail_logs[i].event_key]
             /\ \A w \in Workers :
                   i \notin DOMAIN wsession[w] \cup DOMAIN wsession'[w]]_vars

\* a failed row with attempts = 3 whose next_attempt_at has come, left out of
\* the batch a worker loaded at that time
C8_Witness ==
    \E i \in Ids, w \in Workers :
       /\ mail_logs[i].status = "failed"
       /\ mail_logs[i].attempts = 3
       /\ Val(mail_logs[i].next_attempt_at) <= clock
       /\ wpc[w] = "loop"
       /\ wnow[w] = clock
       /\ DOMAIN wsession[w] # {}
       /\ i \notin DOMAIN wsession[w]

\* the cycle of worker w commits in this step
CycleCommits(w) == wpc[w] = "loop" /\ wpc'[w] = "idle" /\ aborts' = aborts

\* C9: attempts of every row, stored or in a worker's batch, lies in 0..3; an
\* iteration of the loop raises attempts of its row by exactly one, and a
\* commit raises the stored attempts of each row of its batch by exactly one
\* and of no other row.
C9_AttemptsBounded ==
    /\ [](/\ \A i \in Ids : mail_logs[i].attempts \in 0..3
          /\ \A w \in Workers : \A i \in DOMAIN wsession[w] :
                wsession[w][i].attempts \in 0..3)
    /\ [][/\ \A w \in Workers : \A i \in wtodo[w] \ wtodo'[w] :
                wpc'[w] = "loop"
                => wsession'[w][i].attempts = wsession[w][i].attempts + 1
          /\ \A i \in Ids :
                mail_logs'[i].attempts =
                   mail_logs[i].attempts +
                   (IF \E w \in Workers :
                          CycleCommits(w) /\ i \in DOMAIN wsession[w]
                    THEN 1 ELSE 0)]_vars

\* a row attempted three times, delivered by the second worker
C9_Witness ==
    \E i \in Ids :
       /\ mail_logs[i].attempts = 3
       /\ mail_logs[i].status = "sent"
       /\ sent_by[mail_logs[i].event_key] = {"w2"}

\* backoff(k) as the claim spells it
ClaimedBackoff(k) == IF k = 1 THEN 60 ELSE IF k = 2 THEN 300 ELSE 900

\* a failed row carries next_attempt_at = last_attempt_at + backoff(attempts)
BackoffApplied(row) ==
    row.status = "failed"
    => /\ row.attempts >= 1
       /\ row.last_attempt_at # NULL
       /\ row.next_attempt_at =
             Some(Val(row.last_attempt_at) + ClaimedBackoff(row.attempts))

\* C10: every failed row, stored or in a worker's batch, has next_attempt_at
\* = last_attempt_at + backoff(attempts), where backoff is 60, 300, then 900
\* from the third failure on, never decreases and never exceeds 900.
C10_BackoffSchedule ==
    /\ \A i \in Ids : BackoffApplied(mail_logs[i])
    /\ \A w \in Workers : \A i \in DOMAIN wsession[w] :
          BackoffApplied(wsession[w][i])
    /\ \A k \in 1..BackoffProbe :
          /\ _next_backoff(k) = ClaimedBackoff(k)
          /\ _next_backoff(k) <= _next_backoff(k + 1)
          /\ _next_backoff(k) <= 900

\* a row after its third failure, due 900 seconds later
C10_Witness ==
    \E i \in Ids :
       /\ mail_logs[i].status = "failed"
       /\ mail_logs[i].attempts = 3
       /\ mail_logs[i].next_attempt_at =
             Some(Val(mail_logs[i].last_attempt_at) + 900)

\* C11: every stored row that is sent, skipped, or failed with attempts = 3
\* has next_attempt_at null.
C11_TerminalHasNoNextAttempt ==
    \A i \in Ids : Terminal(mail_logs[i]) => mail_logs[i].next_attempt_at = NULL

\* --------------------------------------------------------- user sync claims
\* C12: for each sync task the stored last_synced_at never decreases, whatever
\* the step: a run that fetched zero rows, a run that raised, a forced full
\* profile resync.
C12_WatermarkNeverDecreases ==
    [][\A key \in SyncKeys :
          sync_state[key] # NULL =>
             /\ sync_state'[key] # NULL
             /\ Val(sync_state'[key]) >= Val(sync_state[key])]_vars

\* a run commits in this step
RunCommits == sync_pc = "loop" /\ sync_result' = "completed"

\* the largest updated_at of a non-empty set of source rows
MaxUpdatedAt(S) ==
    CHOOSE m \in {r.updated_at : r \in S} : \A r \in S : r.updated_at <= m

\* the fetched rows that changed the local users table: every row of a
\* profile run, the rows of a password run whose employee exists locally
Applied ==
    {r \in fetched :
        sync_task = SYNC_KEY_PROFILE \/ users[r.emp_no] # NoUser}

\* what a committing run does to the watermarks when S is the set of rows
\* that count
WatermarkFollows(S) ==
    IF S = {} THEN sync_state' = sync_state
    ELSE sync_state' =
            [sync_state EXCEPT ![sync_task] = Some(MaxUpdatedAt(S))]

RunRaises ==
    /\ sync_result' \in {"raised", "rolled_back"}
    /\ sync_pc = "loop" \/ sync_result # sync_result'

\* the rows the next run of a task fetches
NextResultSet(key) ==
    IF key = SYNC_KEY_PASSWORD
    THEN _source_query_password(LastSyncedOrEpoch(SYNC_KEY_PASSWORD))
    ELSE _source_query_profile(ProfileLastSync)

\* C14: a run that raises, wherever it raises, leaves the stored watermarks
\* and the users table as they were before the run (no step of a run before
\* its commit changes them), and the next run of the task fetches the same
\* source rows again.
C14_RaiseLeavesNoTrace ==
    [][/\ (sync_pc = "loop" /\ ~RunCommits) =>
             UNCHANGED <<users, sync_state>>
       /\ RunRaises =>
             /\ UNCHANGED <<users, sync_state, _force_full_done>>
             /\ \A key \in SyncKeys :
                   (sync_pc = "loop" /\ sync_task = key) =>
                      NextResultSet(key)' = fetched]_vars

\* a run raised after it had applied rows in its session; the users table
\* holds none of it and the rows are still to be fetched
C14_Witness ==
    /\ sync_result = "rolled_back"
    /\ sync_state = [key \in SyncKeys |-> NULL]
    /\ \A key \in SyncKeys : NextResultSet(key) # {}
    /\ users["30002"] = NoUser

\* the local user carries the profile columns of the source row
HasProfileOf(user, row) == \A f \in ProfileFields : user[f] = row.profile[f]

\* C15: when a profile run commits, every fetched row whose employee number
\* was absent locally has a local user with the row's names, title,
\* department and email, role 'requester' and is_verified true; for every
\* fetched row whose employee number was present, the user has the row's
\* profile columns and a new updated_at, and role, password, is_verified
\* (and created_at) are as they were.
C15_ProfileUpsert ==
    [][(RunCommits /\ sync_task = SYNC_KEY_PROFILE) =>
          \A row \in fetched :
             LET before == users[row.emp_no]
                 after == users'[row.emp_no]
             IN /\ after # NoUser
                /\ HasProfileOf(Val(after), row)
                /\ IF before = NoUser
                   THEN /\ Val(after).role = "requester"
                        /\ Val(after).is_verified = TRUE
                   ELSE \A f \in DOMAIN Val(before) \ ProfileFields :
                           f # "updated_at" => Val(after)[f] = Val(before)[f]
      ]_vars

\* a profile run committed: it created the absent employee as a verified
\* requester and gave the present one the HR profile, leaving that user an
\* unverified admin with the local password
C15_Witness ==
    /\ sync_result = "completed"
    /\ users["30002"] # NoUser
    /\ Val(users["30002"]).role = "requester"
    /\ Val(users["30002"]).is_verified
    /\ users["30001"] # NoUser
    /\ Val(users["30001"]).kor_name # "local"
    /\ Val(users["30001"]).role = "admin"
    /\ ~Val(users["30001"]).is_verified
    /\ Val(users["30001"]).password = "local"

\* C16: when a password run commits, no employee number that was absent
\* locally has a user (a fetched row for it changed nothing), every user
\* that was present differs from before in password and updated_at at most,
\* and a user whose employee number was fetched has the row's password.
C16_PasswordSyncUpdatesOnly ==
    [][(RunCommits /\ sync_task = SYNC_KEY_PASSWORD) =>
          /\ \A emp_no \in EmpNos :
                IF users[emp_no] = NoUser
                THEN users'[emp_no] = NoUser
                ELSE /\ users'[emp_no] # NoUser
                     /\ \A f \in DOMAIN Val(users[emp_no]) :
                           f \notin {"password", "updated_at"} =>
                              Val(users'[emp_no])[f] = Val(users[emp_no])[f]
          /\ \A row \in fetched :
                users[row.emp_no] # NoUser =>
                   Val(users'[row.emp_no]).password = row.password
      ]_vars

\* a password run committed with rows for both employees: the present one
\* has the HR password and is otherwise the local record, the absent one is
\* still absent
C16_Witness ==
    /\ sync_result = "completed"
    /\ sync_state[SYNC_KEY_PASSWORD] # NULL
    /\ sync_state[SYNC_KEY_PROFILE] = NULL
    /\ users["30002"] = NoUser
    /\ Selected("30002")
    /\ Val(users["30001"]).password = "pw1"
    /\ Val(users["30001"]).kor_name = "local"
    /\ Val(users["30001"]).role = "admin"

\* ------------------------------------------------------ ticket mail claims
\* the create_ticket request has returned
TicketCreated == ticket_pc = "done"

\* the stored row of a payload: its key, type and ticket, and the normalized
\* address
RecordOf(payload, row) ==
    /\ row.event_key = payload.event_key
    /\ row.event_type = payload.event_type
    /\ row.ticket_id = payload.ticket_id
    /\ Some(row.recipient_email) = _validate_email(payload.recipient_email)

\* C17: once create_ticket has returned (one requester, one admin, SMTP
\* configured, valid addresses) the table holds exactly two rows, a
\* ticket_created row for the requester and a ticket_created_admin row for
\* the admin, with the ticket's id and distinct event_keys, neither skipped;
\* while both are pending and no cycle is open, the next cycle loads both;
\* and a cycle that loaded both, had both accepted by the relay and commits
\* leaves both sent.
C17_TicketCreatedMails ==
    /\ [](TicketCreated =>
            /\ Len(mail_logs) = 2
            /\ \E r, a \in Ids :
                  /\ mail_logs[r].event_key # mail_logs[a].event_key
                  /\ mail_logs[r].event_type = "ticket_created"
                  /\ mail_logs[a].event_type = "ticket_created_admin"
                  /\ mail_logs[r].ticket_id = Some(NewTicket.id)
                  /\ mail_logs[a].ticket_id = Some(NewTicket.id)
                  /\ \E p, q \in inputs :
                        RecordOf(p, mail_logs[r]) /\ RecordOf(q, mail_logs[a])
            /\ \A i \in Ids : mail_logs[i].status # "skipped"
            /\ ((\A i \in Ids : mail_logs[i].status = "pending")
                   /\ (\A w \in Workers : wpc[w] = "idle"))
               => _load_pending(clock) = {Ids})
    /\ [][\A w \in Workers :
             (/\ CycleCommits(w)
              /\ Len(mail_logs) = 2
              /\ DOMAIN wsession[w] = Ids
              /\ \A i \in Ids : wsession[w][i].status = "sent")
             => \A i \in Ids : mail_logs'[i].status = "sent"]_vars

\* the ticket was created and one cycle sent both mails, each accepted once
C17_Witness ==
    /\ TicketCreated
    /\ Len(mail_logs) = 2
    /\ \A i \in Ids : /\ mail_logs[i].status = "sent"
                       /\ mail_logs[i].attempts = 1
                       /\ mail_logs[i].last_attempt_at = Some(60)
                       /\ accepted[mail_logs[i].event_key] = 1
    /\ aborts = 0

\* no relay host or no from-address
NoTransport == smtp_host = "" \/ smtp_from = ""

\* C18: while smtp_host or smtp_from is empty no step stores, changes or
\* prepares a row: an enqueue_mail call ends at once without raising, and
\* _process_once loads no batch and hands nothing to the relay.
C18_NoTransportNoEffect ==
    [][NoTransport =>
          /\ mail_logs' = mail_logs
          /\ accepted' = accepted
          /\ UNCHANGED worker_vars
          /\ \A e \in EnqueueThreads :
                /\ epc'[e] = "idle"
                /\ erow'[e] = NoRow
                /\ eresult'[e] \in {eresult[e], "no_smtp"}]_vars

\* without a transport, a call has returned and a row that is due (stored
\* while the transport was configured) is still pending and unsent
C18_Witness ==
    /\ NoTransport
    /\ eresult["e1"] = "no_smtp"
    /\ \E i \in Ids : /\ IsDue(mail_logs[i], clock)
                       /\ mail_logs[i].created_at < clock
                       /\ mail_logs[i].attempts = 0
                       /\ accepted[mail_logs[i].event_key] = 0

\* the status changes a record may make
StatusMoves ==
    {<<"pending", "sent">>, <<"pending", "failed">>,
     <<"failed", "sent">>, <<"failed", "failed">>}

\* C19: in the table and in every dispatch session, the status of a record
\* stays as it is or moves along pending -> sent, pending -> failed,
\* failed -> sent, failed -> failed: none returns to pending, none leaves
\* sent or skipped, none becomes skipped; a record is created pending or
\* skipped, by enqueue_mail.
C19_StatusTransitions ==
    [][/\ \A i \in Ids :
             /\ i \in DOMAIN mail_logs'
             /\ \/ mail_logs'[i].status = mail_logs[i].status
                \/ <<mail_logs[i].status, mail_logs'[i].status>> \in StatusMoves
       /\ \A i \in DOMAIN mail_logs' \ Ids :
             /\ mail_logs'[i].status \in {"pending", "skipped"}
             /\ \E e \in EnqueueThreads : InsertEnds(e)
       /\ \A w \in Workers : \A i \in DOMAIN wsession'[w] :
             \/ mail_logs[i].status = wsession'[w][i].status
             \/ <<mail_logs[i].status, wsession'[w][i].status>> \in StatusMoves
      ]_vars

\* a record that failed and was sent by the retry, next to a record that was
\* created skipped and is still skipped
C19_Witness ==
    \E i, j \in Ids :
       /\ mail_logs[i].status = "sent"
       /\ mail_logs[i].attempts = 2
       /\ mail_logs[j].status = "skipped"
       /\ mail_logs[j].created_at < clock

\* the record of event k, created early enough for three attempts and their
\* delays to fit in the instants the clock visits
Queued(k) ==
    \E i \in Ids : /\ mail_logs[i].event_key = k
                   /\ mail_logs[i].status # "skipped"
                   /\ mail_logs[i].created_at <= 60

\* the record of event k is sent, or failed with attempts = 3
Settled(k) ==
    \E i \in Ids : /\ mail_logs[i].event_key = k
                   /\ \/ mail_logs[i].status = "sent"
                      \/ mail_logs[i].status = "failed"
                         /\ mail_logs[i].attempts = 3

\* a lower bound of the times the relay was handed the mail of a record:
\* the attempts the row counts, and the accepted mails it does not count
DeliveryAttempts(row) ==
    row.attempts + accepted[row.event_key]
       - (IF row.status = "sent" THEN 1 ELSE 0)

\* the liveness part of C20 alone
C20_EventuallySettled == \A k \in EventKeys : Queued(k) ~> Settled(k)

\* C20: with the workers polling and time advancing, every record created
\* pending is eventually sent or failed with attempts = 3, and that after at
\* most 3 delivery attempts.
C20_SettledWithinThreeAttempts ==
    /\ \A k \in EventKeys : Queued(k) ~> Settled(k)
    /\ [](\A i \in Ids : DeliveryAttempts(mail_logs[i]) <= 3)

\* ------------------------------------------------------- dispatch claims
\* the cycle of worker w ends in this step, with or without its commit
CycleEnds(w) == wpc[w] = "loop" /\ wpc'[w] = "idle"

\* the rows worker w has handed to the relay in its open cycle
Attempted(w) == DOMAIN wsession[w] \ wtodo[w]

\* C21: a cycle attempts a row once (the row it hands to the relay is the
\* stored row, due at the cycle's time), and when a cycle in which the
\* delivery of a row failed at time t ends, the row is not selectable by any
\* worker at any time before t + backoff(attempts).
C21_NoRetryBeforeBackoff ==
    [][\A w \in Workers :
          /\ \A i \in wtodo[w] \ wtodo'[w] :
                /\ wsession[w][i] = mail_logs[i]
                /\ IsDue(mail_logs[i], wnow[w])
          /\ CycleEnds(w) =>
                \A i \in Attempted(w) :
                   wsession[w][i].status = "failed" =>
                      \A t \in horizon :
                         t < wnow[w] + ClaimedBackoff(wsession[w][i].attempts)
                            => ~IsDue(mail_logs'[i], t)]_vars

\* worker w hands row i to the relay in this step
AttemptStep(w, i) == i \in wtodo[w] /\ i \notin wtodo'[w] /\ wpc'[w] = "loop"

\* C22: an iteration of the loop, whether its delivery succeeds or fails,
\* leaves the cycle open with the other rows of the batch untouched and
\* still to be visited; it raises attempts of its row by one and sets its
\* status by its own delivery; a commit comes only after every selected row
\* was attempted and stores, for each, attempts raised by one and the
\* status of its own delivery.
C22_FailureDoesNotAbortBatch ==
    [][\A w \in Workers :
          /\ \A i \in RowIds :
                AttemptStep(w, i) =>
                   LET key == mail_logs[i].event_key
                   IN /\ wtodo'[w] = wtodo[w] \ {i}
                      /\ \A j \in DOMAIN wsession[w] \ {i} :
                            wsession'[w][j] = wsession[w][j]
                      /\ wsession'[w][i].attempts = mail_logs[i].attempts + 1
                      /\ wsession'[w][i].status =
                            IF accepted'[key] > accepted[key]
                            THEN "sent" ELSE "failed"
          /\ CycleCommits(w) =>
                /\ wtodo[w] = {}
                /\ \A i \in DOMAIN wsession[w] :
                      /\ mail_logs'[i].attempts = mail_logs[i].attempts + 1
                      /\ mail_logs'[i].status = wsession[w][i].status
                      /\ mail_logs'[i].status \in {"sent", "failed"}]_vars

\* one committed cycle attempted both rows of its batch: the delivery of the
\* first failed, the second was sent
C22_Witness ==
    /\ Len(mail_logs) = 2
    /\ mail_logs[1].status = "failed"
    /\ mail_logs[2].status = "sent"
    /\ mail_logs[1].attempts = 1
    /\ mail_logs[2].attempts = 1
    /\ mail_logs[1].last_attempt_at = Some(60)
    /\ mail_logs[2].last_attempt_at = Some(60)
    /\ aborts = 0

\* ------------------------------------------------------- cooldown claims
\* two rows of one (recipient_email, event_type, ticket_id)
SameTuple(a, b) ==
    /\ a.recipient_email = b.recipient_email
    /\ a.event_type = b.event_type
    /\ a.ticket_id = b.ticket_id

\* C23: of two records with distinct event_keys and the same
\* (recipient_email, event_type, ticket_id) that were enqueued less than 60
\* seconds apart, the later one is stored as skipped and at most one has a
\* mail accepted by the relay.
C23_CooldownPreventsStorm ==
    \A i, j \in Ids :
       (/\ i < j
        /\ SameTuple(mail_logs[i], mail_logs[j])
        /\ mail_logs[j].created_at - mail_logs[i].created_at < 60)
       => /\ mail_logs[j].status = "skipped"
          /\ ~(/\ accepted[mail_logs[i].event_key] > 0
                /\ accepted[mail_logs[j].event_key] > 0)

\* ------------------------------------------------------- sync loop claims
\* a tick of _sync_loop ends
TickEnds == loop_pc' = "sleep" /\ loop_wake' # loop_wake

\* a tick of _sync_loop begins
TickBegins == loop_pc = "sleep" /\ (loop_pc' # "sleep" \/ TickEnds)

\* the tick that ends ran sync_profile_once
RanProfile == loop_pc = "profile"

\* C24: every tick of _sync_loop in which the profile condition holds runs
\* the profile sync, whether the password sync of the tick did not run,
\* returned or raised.
C24_TasksCheckedIndependently ==
    [][TickEnds =>
          LET ts == IF loop_pc = "sleep" THEN time_time ELSE now_ts
          IN ProfileDue(ts) => RanProfile]_vars

\* ------------------------------------------------------- force-full claims
\* a run of the profile sync reads the source
ProfileRunBegins ==
    sync_pc = "idle" /\ sync_pc' = "loop" /\ sync_task' = SYNC_KEY_PROFILE

\* a run of the profile sync ends, by its commit or by an exception
ProfileRunEnds ==
    /\ sync_pc = "loop"
    /\ sync_task = SYNC_KEY_PROFILE
    /\ sync_result' \in {"completed", "raised", "rolled_back"}

\* the run that begins reads the source rows later than last_sync
ReadsFrom(last_sync) == fetched' = _source_query_profile(last_sync)

\* the run that begins uses epoch while the flag is set and not consumed,
\* and the stored watermark otherwise
LowerBoundRule ==
    ProfileRunBegins =>
       IF sync_force_full /\ ~_force_full_done
       THEN ReadsFrom(EPOCH)
       ELSE ReadsFrom(LastSyncedOrEpoch(SYNC_KEY_PROFILE))

\* C25 as stated: with the force-full flag set, a profile run uses epoch as
\* its lower bound while the flag is not consumed, every run that ends
\* leaves the flag consumed, and runs that begin after it use the stored
\* watermark.
C25_ForceFullFirstRunOnly ==
    [][/\ LowerBoundRule
       /\ (ProfileRunEnds /\ sync_force_full) => _force_full_done']_vars

\* C25 amended: the flag is consumed by the commit of a profile run and by
\* nothing else; a run that raises leaves it as it was, so every profile run
\* that begins before the first commit of the process uses epoch, and every
\* run that begins after it uses the stored watermark.
C25_ForceFullUntilCommitted ==
    [][/\ LowerBoundRule
       /\ ProfileRunEnds =>
             _force_full_done' =
                IF sync_result' = "completed" /\ sync_force_full
                THEN TRUE ELSE _force_full_done
       /\ (~_force_full_done /\ _force_full_done') =>
             ProfileRunEnds /\ sync_result' = "completed"
       /\ (_force_full_done /\ ~_force_full_done') =>
             sync_result' = "none"]_vars

\* a profile run after the flag was consumed, reading less than a full
\* resync would
C25_Witness ==
    /\ sync_force_full
    /\ _force_full_done
    /\ sync_pc = "loop"
    /\ sync_task = SYNC_KEY_PROFILE
    /\ fetched # _source_query_profile(EPOCH)

\* ------------------------------------------------------- once-a-day claims
\* the profile sync that _sync_loop called commits
LoopProfileCompletes ==
    loop_pc = "profile" /\ sync_pc = "loop" /\ sync_result' = "completed"

\* the tick that ends had the profile condition true when it began
ProfileWasDue ==
    ProfileDue(IF loop_pc = "sleep" THEN time_time ELSE now_ts)

\* a profile sync completes only in a tick of the configured hour and on a
\* later date than the one before it; last_profile_date_kst is the tick of
\* the last completion, and a run that raised leaves it alone
OncePerDate ==
    /\ LoopProfileCompletes =>
          /\ KstHour(now_ts) = cfg.full_at_hour_kst
          /\ last_profile_date_kst # NULL =>
                KstDate(now_ts) > KstDate(Val(last_profile_date_kst))
    /\ last_profile_date_kst' # last_profile_date_kst =>
          /\ loop_pc = "profile"
          /\ sync_result = "completed"
          /\ last_profile_date_kst' = Some(now_ts)
    /\ (loop_pc = "profile" /\ CallReturned /\ TickEnds) =>
          last_profile_date_kst' = Some(now_ts)
    /\ (loop_pc = "profile" /\ CallRaised /\ TickEnds) =>
          /\ last_profile_date_kst' = last_profile_date_kst
          /\ ProfileDue(now_ts)

\* C26: within one run of _sync_loop the profile sync completes at most once
\* per date (Asia/Seoul) and only in a tick of the configured hour; a run
\* that raised does not count, and each following tick of that hour on
\* which no run has completed that date runs the profile sync again.
C26_ProfileOncePerDate ==
    [][/\ OncePerDate
       /\ (TickEnds /\ ProfileWasDue) => RanProfile]_vars

\* ------------------------------------------------------- loop survival
\* _process_once raised in the cycle of worker w
WorkerTickRaises(w) ==
    wpc[w] = "loop" /\ wpc'[w] # "loop" /\ aborts' # aborts

\* sync_password_once or sync_profile_once raised in the tick of _sync_loop
\* and the exception reaches the loop
SyncTickRaises ==
    loop_pc \in {"password", "profile"} /\ CallRaised /\ loop_pc' # loop_pc

\* _sync_loop can begin a tick
SyncTickCanBegin ==
    ENABLED (\/ \E reachable \in BOOLEAN : loop_password(reachable)
             \/ \E reachable \in BOOLEAN : loop_profile(reachable)
             \/ loop_idle)

\* both threads are alive, and a thread that is between two ticks can begin
\* the next one
LoopsAlive ==
    /\ loop_pc \in {"sleep", "password", "profile"}
    /\ LoopWakes => SyncTickCanBegin
    /\ \A w \in mail_workers :
          /\ wpc[w] \in {"idle", "loop"}
          /\ wpc[w] = "idle" => ENABLED _process_once(w)

\* C27: an exception raised inside a tick ends neither background loop: the
\* tick in which _process_once, sync_password_once or sync_profile_once
\* raised is followed by the sleep of its loop, with the locals of the loop
\* as they were, and the next tick can begin.
C27_LoopsSurviveExceptions ==
    /\ []LoopsAlive
    /\ [][/\ SyncTickRaises =>
                /\ loop_pc' = "sleep"
                /\ loop_wake' = clock + CHECK_INTERVAL
                /\ UNCHANGED <<cfg, last_password_run, last_profile_date_kst>>
          /\ \A w \in mail_workers :
                WorkerTickRaises(w) => wpc'[w] = "idle"]_vars

\* after a cycle of the worker and a tick of the sync loop that raised at
\* 0 s, each thread is in its next tick at 60 s
C27_Witness ==
    /\ clock = 60
    /\ aborts = 1
    /\ wpc["w1"] = "loop"
    /\ wnow["w1"] = 60
    /\ loop_wake = 60
    /\ last_password_run = 0
    /\ loop_pc = "password"
    /\ now_ts = PROCESS_START + 60

\* ------------------------------------------------------- event_key claims
\* two status-change notifications for one ticket and one requester
SameStatusSubject(a, b) ==
    /\ a.event_type = "status_changed"
    /\ b.event_type = "status_changed"
    /\ a.ticket_id = b.ticket_id
    /\ a.emp_no = b.emp_no

\* C28: two notifications have the same event_key only if they are of the
\* same event kind, for the same ticket and to the same recipient; two
\* status-change notifications for one ticket and requester have the same
\* event_key exactly when their target status is the same.
C28_EventKeysDistinguish ==
    \A a, b \in inputs :
       /\ a.event_key = b.event_key =>
             /\ a.event_type = b.event_type
             /\ a.ticket_id = b.ticket_id
             /\ a.emp_no = b.emp_no
       /\ SameStatusSubject(a, b) =>
             (a.event_key = b.event_key <=> a.detail = b.detail)

\* two status-change mails for one ticket and requester, to different
\* statuses, are both queued
C28_Witness ==
    \E a, b \in inputs :
       /\ SameStatusSubject(a, b)
       /\ a.detail # b.detail
       /\ RowsWithKey(mail_logs, a.event_key) # {}
       /\ RowsWithKey(mail_logs, b.event_key) # {}

\* ------------------------------------------------------- record invariant
\* the fields of a row agree with its status
FieldsAgree(row) ==
    /\ row.status = "pending" =>
          /\ row.attempts = 0
          /\ row.next_attempt_at # NULL
    /\ row.status = "sent" =>
          /\ row.attempts >= 1
          /\ row.next_attempt_at = NULL
          /\ row.error_message = NULL
    /\ row.status = "failed" =>
          /\ row.attempts >= 1
          /\ row.last_attempt_at # NULL
          /\ row.next_attempt_at =
                Some(Val(row.last_attempt_at) + ClaimedBackoff(row.attempts))
          /\ row.error_message # NULL
    /\ row.status = "skipped" =>
          /\ row.attempts = 0
          /\ row.next_attempt_at = NULL
          /\ row.error_message # NULL

\* C29: in every reachable state the fields of each row of mail_logs agree
\* with its status: pending has attempts = 0 and a next_attempt_at; sent has
\* attempts >= 1, no next_attempt_at and no error_message; failed has
\* attempts >= 1, next_attempt_at = last_attempt_at + backoff(attempts) and
\* an error_message; skipped has attempts = 0, no next_attempt_at and an
\* error_message.
C29_FieldsAgreeWithStatus ==
    \A i \in Ids :
       /\ mail_logs[i].status \in {"pending", "sent", "failed", "skipped"}
       /\ FieldsAgree(mail_logs[i])

\* a row that failed twice next to a row that was skipped
C29_Witness ==
    \E i, j \in Ids :
       /\ mail_logs[i].status = "failed"
       /\ mail_logs[i].attempts = 2
       /\ mail_logs[j].status = "skipped"

\* ------------------------------------------------------- cooldown window
\* the call that begins builds a row skipped for the cooldown
SkipsForCooldown(e) ==
    /\ erow'[e].status = "skipped"
    /\ erow'[e].error_message = Some(ERR_COOLDOWN)

\* C30: the cooldown window is measured from created_at of a sent row: a
\* call of enqueue_mail is skipped for the cooldown only if the table holds
\* a sent row of its (recipient_email, event_type, ticket_id) created at
\* most 60 seconds before the call; a sent row created earlier, whenever it
\* was delivered, and rows that are pending or failed cause no skip.
C30_CooldownFromCreation ==
    [][\A e \in EnqueueThreads :
          (CallBegins(e) /\ SkipsForCooldown(e)) =>
             \E i \in Ids :
                /\ mail_logs[i].status = "sent"
                /\ SameTuple(mail_logs[i], erow'[e])
                /\ mail_logs[i].created_at >= clock - 60]_vars

\* a row created at 0 s and delivered by a retry at 360 s, and a second
\* event of its tuple enqueued at 360 s and queued, not skipped
C30_Witness ==
    \E i, j \in Ids :
       /\ mail_logs[i].status = "sent"
       /\ mail_logs[i].created_at = 0
       /\ mail_logs[i].attempts >= 2
       /\ mail_logs[i].last_attempt_at = Some(360)
       /\ SameTuple(mail_logs[i], mail_logs[j])
       /\ mail_logs[j].created_at = 360
       /\ mail_logs[j].status = "pending"

=============================================================================
